---- MODULE Spec2Model ----
(***************************************************************************)
(* Model of filterdump.py: the transclusion closure resolver               *)
(* (is_filtered / _is_filtered with its memo cache and active set), the    *)
(* per-page removal loop (remove_filtered_templates), template-name        *)
(* normalisation, the table builder (load_templates), the filter pass      *)
(* (filter_dump) and the orchestrator (main) with its cache file.          *)
(* Strings are sequences of one-character strings.                         *)
(***************************************************************************)
EXTENDS Integers, Sequences, FiniteSets, TLC

VARIABLES
  templates,    \* Template Table: normalised key -> body (raw invocation names, in filter_templates() order)
  cache,        \* is_filtered.cache: key -> "True" | "False" | "None"
  active,       \* is_filtered.active
  stack,        \* call chain of is_filtered/_is_filtered activations that passed active.add
  ret,          \* value handed back by the is_filtered call that just came back, with its key
  log,          \* logger records emitted so far, as <<kind, name>>
  inspections,  \* history: how often templates[title].wikicode.filter_templates() ran per title
  seen,         \* history across runs: <<key, value, top-level key>> of every cache write
  pc,           \* filter_dump position: "idle" (between pages), "loop" (in remove_filtered_templates), "write"
  page,         \* wikicode.filter_templates() of the page being filtered: nodes in document order
  idx,          \* position of the removal loop in page
  removed,      \* indexes of the nodes wikicode.remove() has detached
  rendered,     \* textelem.text of the page element being written
  nin,          \* normalisation harness: the input string
  nout,         \* normalisation harness: results of normalize_template_name(nin) and of normalising that again
  dump,         \* the raw dump at args.dump: its siteinfo element and its page elements
  argpath,      \* args.templates: "None", or the kind of file name given ("plain", "bz2")
  cachefile,    \* the file at args.templates: absent, unreadable, or the text of a reduced document
  mpc,          \* position of main / filter_dump: "start", "rebuild", "header", "siteinfo", "pages", "done"
  loaded,       \* siteinfo, templates as assigned in main, and the document they were read from
  out,          \* sys.stdout: what filter_dump has printed
  nread         \* number of page elements of the dump that filter_dump has taken from iterparse

\* the variables of main that the resolver and the removal loop never touch
runvars == <<dump, argpath, cachefile, mpc, loaded>>

vars == <<templates, cache, active, stack, ret, log, inspections, seen,
          pc, page, idx, removed, rendered, nin, nout, runvars, out, nread>>

-----------------------------------------------------------------------------
(* Bounds *)

MaxBody == 2        \* template invocations per template body
MaxPageNodes == 3   \* template invocations per filtered page
MaxDepth == 6       \* cap on the call chain (the interpreter's recursion limit, scaled)
MaxNameLen == 3     \* length of the strings fed to the normalisation harness
MaxPages == 2       \* page elements per dump

-----------------------------------------------------------------------------
(* Strings *)

Whitespace == {" ", "\t", "\n"}

LowerCase == <<"a","b","c","d","e","f","g","h","i","j","k","l","m",
               "n","o","p","q","r","s","t","u","v","w","x","y","z">>

UpperCase == <<"A","B","C","D","E","F","G","H","I","J","K","L","M",
               "N","O","P","Q","R","S","T","U","V","W","X","Y","Z">>

\* str.upper() of a one-character string
upper(c) ==
  IF \E i \in 1..Len(LowerCase) : LowerCase[i] = c
  THEN UpperCase[CHOOSE i \in 1..Len(LowerCase) : LowerCase[i] = c]
  ELSE c

\* Each string operation is a function applied to its argument, so that the argument is
\* evaluated once, as Python evaluates it.

\* str.lstrip(): drop the leading whitespace
lstrip(str) ==
  LET f[s \in Seq(STRING)] ==
        IF \A i \in 1..Len(s) : s[i] \in Whitespace THEN <<>>
        ELSE SubSeq(s, CHOOSE i \in 1..Len(s) :
                         s[i] \notin Whitespace /\ \A j \in 1..(i - 1) : s[j] \in Whitespace,
                    Len(s))
  IN  f[str]

\* str.rstrip(): drop the trailing whitespace
rstrip(str) ==
  LET f[s \in Seq(STRING)] ==
        IF \A i \in 1..Len(s) : s[i] \in Whitespace THEN <<>>
        ELSE SubSeq(s, 1, CHOOSE i \in 1..Len(s) :
                            s[i] \notin Whitespace /\ \A j \in (i + 1)..Len(s) : s[j] \in Whitespace)
  IN  f[str]

\* str.strip()
strip(str) == rstrip(lstrip(str))

\* str.startswith(prefix)
startswith(str, prefix) ==
  LET f[s \in Seq(STRING)] == Len(s) >= Len(prefix) /\ SubSeq(s, 1, Len(prefix)) = prefix
  IN  f[str]

\* the exception name[0] raises on an empty string, as a value that propagates
IndexError == <<"IndexError">>

\* normalisation that trims but leaves the case of the first character
normalize_strip_only(name) ==
  IF name = IndexError \/ strip(name) = <<>> THEN IndexError ELSE strip(name)

\* lines 288-290
normalize_template_name(name) ==
  LET f[stripped \in Seq(STRING)] ==
        IF stripped = <<>> THEN IndexError
        ELSE <<upper(stripped[1])>> \o Tail(stripped)
  IN  IF name = IndexError THEN IndexError ELSE f[strip(name)]

-----------------------------------------------------------------------------
(* Configuration *)

FILTERED_TEMPLATE_PREFIXES ==
  { <<"I","n","f","o","b","o","x">>,
    <<"N","a","v","b","o","x">>,
    <<"T","i","e","t","o","l","a","a","t","i","k","k","o">> }

MAGIC_WORDS ==
  { <<"C","U","R","R","E","N","T","Y","E","A","R">>,
    <<"C","U","R","R","E","N","T","M","O","N","T","H">>,
    <<"C","U","R","R","E","N","T","M","O","N","T","H","1">>,
    <<"C","U","R","R","E","N","T","M","O","N","T","H","N","A","M","E">>,
    <<"C","U","R","R","E","N","T","M","O","N","T","H","N","A","M","E","G","E","N">>,
    <<"C","U","R","R","E","N","T","M","O","N","T","H","A","B","B","R","E","V">>,
    <<"C","U","R","R","E","N","T","D","A","Y">>,
    <<"C","U","R","R","E","N","T","D","A","Y","2">>,
    <<"C","U","R","R","E","N","T","D","O","W">>,
    <<"C","U","R","R","E","N","T","D","A","Y","N","A","M","E">>,
    <<"C","U","R","R","E","N","T","T","I","M","E">>,
    <<"C","U","R","R","E","N","T","H","O","U","R">>,
    <<"C","U","R","R","E","N","T","W","E","E","K">>,
    <<"C","U","R","R","E","N","T","T","I","M","E","S","T","A","M","P">>,
    <<"L","O","C","A","L","Y","E","A","R">>,
    <<"L","O","C","A","L","M","O","N","T","H">>,
    <<"L","O","C","A","L","M","O","N","T","H","1">>,
    <<"L","O","C","A","L","M","O","N","T","H","N","A","M","E">>,
    <<"L","O","C","A","L","M","O","N","T","H","N","A","M","E","G","E","N">>,
    <<"L","O","C","A","L","M","O","N","T","H","A","B","B","R","E","V">>,
    <<"L","O","C","A","L","D","A","Y">>,
    <<"L","O","C","A","L","D","A","Y","2">>,
    <<"L","O","C","A","L","D","O","W">>,
    <<"L","O","C","A","L","D","A","Y","N","A","M","E">>,
    <<"L","O","C","A","L","T","I","M","E">>,
    <<"L","O","C","A","L","H","O","U","R">>,
    <<"L","O","C","A","L","W","E","E","K">>,
    <<"L","O","C","A","L","T","I","M","E","S","T","A","M","P">>,
    <<"S","I","T","E","N","A","M","E">>,
    <<"S","E","R","V","E","R">>,
    <<"S","E","R","V","E","R","N","A","M","E">>,
    <<"D","I","R","M","A","R","K">>,
    <<"D","I","R","E","C","T","I","O","N","M","A","R","K">>,
    <<"S","C","R","I","P","T","P","A","T","H">>,
    <<"S","T","Y","L","E","P","A","T","H">>,
    <<"C","U","R","R","E","N","T","V","E","R","S","I","O","N">>,
    <<"C","O","N","T","E","N","T","L","A","N","G","U","A","G","E">>,
    <<"C","O","N","T","E","N","T","L","A","N","G">>,
    <<"P","A","G","E","I","D">>,
    <<"P","A","G","E","L","A","N","G","U","A","G","E">>,
    <<"C","A","S","C","A","D","I","N","G","S","O","U","R","C","E","S">>,
    <<"R","E","V","I","S","I","O","N","I","D">>,
    <<"R","E","V","I","S","I","O","N","D","A","Y">>,
    <<"R","E","V","I","S","I","O","N","D","A","Y","2">>,
    <<"R","E","V","I","S","I","O","N","M","O","N","T","H">>,
    <<"R","E","V","I","S","I","O","N","M","O","N","T","H","1">>,
    <<"R","E","V","I","S","I","O","N","Y","E","A","R">>,
    <<"R","E","V","I","S","I","O","N","T","I","M","E","S","T","A","M","P">>,
    <<"R","E","V","I","S","I","O","N","U","S","E","R">>,
    <<"R","E","V","I","S","I","O","N","S","I","Z","E">>,
    <<"N","U","M","B","E","R","O","F","P","A","G","E","S">>,
    <<"N","U","M","B","E","R","O","F","A","R","T","I","C","L","E","S">>,
    <<"N","U","M","B","E","R","O","F","F","I","L","E","S">>,
    <<"N","U","M","B","E","R","O","F","E","D","I","T","S">>,
    <<"N","U","M","B","E","R","O","F","V","I","E","W","S">>,
    <<"N","U","M","B","E","R","O","F","U","S","E","R","S">>,
    <<"N","U","M","B","E","R","O","F","A","D","M","I","N","S">>,
    <<"N","U","M","B","E","R","O","F","A","C","T","I","V","E","U","S","E","R","S">>,
    <<"F","U","L","L","P","A","G","E","N","A","M","E">>,
    <<"P","A","G","E","N","A","M","E">>,
    <<"B","A","S","E","P","A","G","E","N","A","M","E">>,
    <<"R","O","O","T","P","A","G","E","N","A","M","E">>,
    <<"S","U","B","P","A","G","E","N","A","M","E">>,
    <<"A","R","T","I","C","L","E","P","A","G","E","N","A","M","E">>,
    <<"S","U","B","J","E","C","T","P","A","G","E","N","A","M","E">>,
    <<"T","A","L","K","P","A","G","E","N","A","M","E">>,
    <<"N","A","M","E","S","P","A","C","E","N","U","M","B","E","R">>,
    <<"N","A","M","E","S","P","A","C","E">>,
    <<"A","R","T","I","C","L","E","S","P","A","C","E">>,
    <<"S","U","B","J","E","C","T","S","P","A","C","E">>,
    <<"T","A","L","K","S","P","A","C","E">>,
    <<"F","U","L","L","P","A","G","E","N","A","M","E","E">>,
    <<"P","A","G","E","N","A","M","E","E">>,
    <<"B","A","S","E","P","A","G","E","N","A","M","E","E">>,
    <<"S","U","B","P","A","G","E","N","A","M","E","E">>,
    <<"S","U","B","J","E","C","T","P","A","G","E","N","A","M","E","E">>,
    <<"A","R","T","I","C","L","E","P","A","G","E","N","A","M","E","E">>,
    <<"T","A","L","K","P","A","G","E","N","A","M","E","E">>,
    <<"R","O","O","T","P","A","G","E","N","A","M","E","E">>,
    <<"N","A","M","E","S","P","A","C","E","E">>,
    <<"S","U","B","J","E","C","T","S","P","A","C","E","E">>,
    <<"A","R","T","I","C","L","E","S","P","A","C","E","E">>,
    <<"T","A","L","K","S","P","A","C","E","E">>,
    <<"S","H","O","R","T","D","E","S","C">>,
    <<"!">> }

-----------------------------------------------------------------------------
(* Classification of a normalised name *)

is_magic_word(string) == string \in MAGIC_WORDS

is_parser_function(string) == startswith(string, <<"#">>)

is_filtered_by_name(title) ==
  \E prefix \in FILTERED_TEMPLATE_PREFIXES : startswith(title, prefix)

-----------------------------------------------------------------------------
(* Input universes *)

RawA == <<" ", "a">>
RawB == <<"B">>
RawInfobox == <<"i","n","f","o","b","o","x"," ","x">>
RawPagename == <<"P","A","G","E","N","A","M","E">>
RawIf == <<"#","i","f">>

\* names invoked inside template bodies, and requested by pages that hold one invocation
BodyNames == {RawA, RawB, RawInfobox}

\* names invoked in pages with several, possibly nested, invocations
NestNames == {RawA, RawInfobox}

\* a magic word and a parser function, invoked in pages that hold one invocation
MagicNames == {RawPagename, RawIf}

Bodies == UNION {[1..n -> BodyNames] : n \in 0..MaxBody}

EmptyTable == [k \in {} |-> <<>>]

\* template pages whose bodies are drawn freely
FreeKeys == {<<"A">>, <<"B">>}

\* template pages stored under a magic word and under a blocklisted name
ReservedEntries ==
  (RawPagename :> <<RawInfobox>>) @@ (normalize_template_name(RawInfobox) :> <<RawB>>)

\* tables of the resolver specifications
Tables == UNION {[K -> Bodies] : K \in SUBSET FreeKeys}

\* tables of the page-level specification: with or without the reserved entries, and template A
\* absent or with at most one invocation
PageTables ==
  { g @@ f :
      g \in {EmptyTable, ReservedEntries},
      f \in {EmptyTable} \cup [{<<"A">>} -> {b \in Bodies : Len(b) <= 1}] }

RECURSIVE Ancestors(_, _)
Ancestors(p, i) ==
  IF i = 0 \/ p[i].parent = 0 THEN {}
  ELSE {p[i].parent} \cup Ancestors(p, p[i].parent)

\* document order of a tree: a node's parent is the previous node, one of its ancestors, or none
WellNested(p) ==
  \A i \in 1..Len(p) :
    /\ p[i].parent < i
    /\ p[i].parent = 0 \/ p[i].parent = i - 1 \/ p[i].parent \in Ancestors(p, i - 1)

SinglePages(names) == {<<[name |-> n, parent |-> 0]>> : n \in names}

\* pages of the page-level specification
Pages ==
  SinglePages(MagicNames) \cup
  UNION { {p \in [1..n -> [name : NestNames, parent : 0..(n - 1)]] : WellNested(p)}
          : n \in 1..MaxPageNodes }

\* pages of the resolver specifications: one invocation of a name that bodies invoke
RequestPages == SinglePages(BodyNames)

NormAlphabet == {" ", "a", "A", "#"}

NameStrings == UNION {[1..n -> NormAlphabet] : n \in 0..MaxNameLen}

-----------------------------------------------------------------------------
(* Resolver: is_filtered / _is_filtered *)

NoRet == [key |-> <<>>, val |-> "NoRet"]

EmptyCache == [k \in {} |-> "None"]

\* a truth test that takes only False for false
Truthy_not_false(v) == v # "False"

\* Python truth value of True / False / None
Truthy(v) == v = "True"

\* an active entry that stays when the resolution ends without a decision
active_after_remove_decided(key, res) == IF res = "None" THEN active ELSE active \ {key}

\* line 330: is_filtered.active.remove(key)
active_after_remove(key, res) == active \ {key}

\* no guard against reference loops
in_progress_never(key) == FALSE

\* line 324: key in is_filtered.active
in_progress(key) == key \in active

\* the reference-loop branch memoising its indeterminate answer
cache_after_loop_guard_memo(key) ==
  [k \in DOMAIN cache \cup {key} |-> IF k = key THEN "None" ELSE cache[k]]

\* lines 324-327: what the cache holds after the reference-loop branch
cache_after_loop_guard(key) == cache

\* a reference-loop branch that answers False
LoopGuardAnswer_false == "False"

\* line 327: what the reference-loop branch returns
LoopGuardAnswer == "None"

\* a cache that is never consulted
is_cached_never(key) == FALSE

\* line 323: key not in is_filtered.cache
is_cached(key) == key \in DOMAIN cache

\* unknown templates taken as filtered
MissingDecision_filtered == "True"

\* line 310: the decision for a template that is not in the table
MissingDecision == "False"

\* the table consulted before the magic words and parser functions
policy_table_first(title) ==
  LET f[t \in Seq(STRING)] ==
        IF is_filtered_by_name(t) THEN "name"
        ELSE IF t \in DOMAIN templates THEN "body"
        ELSE IF is_magic_word(t) \/ is_parser_function(t) THEN "magic"
        ELSE "missing"
  IN  f[title]

\* lines 302-311: which branch of _is_filtered a normalised title takes
policy(title) ==
  LET f[t \in Seq(STRING)] ==
        IF is_filtered_by_name(t) THEN "name"
        ELSE IF is_magic_word(t) \/ is_parser_function(t) THEN "magic"
        ELSE IF t \notin DOMAIN templates THEN "missing"
        ELSE "body"
  IN  f[title]

\* lines 301-312: _is_filtered from its entry to its return or to the first iteration of its loop
_is_filtered_entry(key) ==
  LET enter[title \in Seq(STRING)] ==
        LET base == [key |-> key, title |-> title, st |-> "done", pos |-> 0, res |-> "None"]
            branch[kind \in STRING] ==
              CASE kind = "name"    -> [base EXCEPT !.res = "True"]
                [] kind = "magic"   -> [base EXCEPT !.res = "False"]
                [] kind = "missing" -> [base EXCEPT !.res = MissingDecision]
                [] OTHER            -> IF templates[title] = <<>>
                                       THEN base    \* the loop body never runs: implicit return None
                                       ELSE [base EXCEPT !.st = "loop", !.pos = 1]
        IN  branch[policy(title)]
  IN  enter[normalize_template_name(key)]

\* a loop with its test inverted
loop_body_negated(frame, v) ==
  IF Truthy(v) THEN [frame EXCEPT !.st = "done", !.res = "False"]
  ELSE [frame EXCEPT !.st = "done", !.res = "True"]

\* a loop that goes on to the next invocation and returns False only after the last
loop_body_all(frame, v) ==
  IF Truthy(v) THEN [frame EXCEPT !.st = "done", !.res = "True"]
  ELSE IF frame.pos < Len(templates[frame.title]) THEN [frame EXCEPT !.pos = frame.pos + 1]
  ELSE [frame EXCEPT !.st = "done", !.res = "False"]

\* lines 314-318: one iteration of the loop over the body, given the nested call's result
loop_body(frame, v) ==
  IF Truthy(v) THEN [frame EXCEPT !.st = "done", !.res = "True"]
  ELSE [frame EXCEPT !.st = "done", !.res = "False"]

Bump(f, k) ==
  [x \in DOMAIN f \cup {k} |-> IF x = k THEN (IF k \in DOMAIN f THEN f[k] + 1 ELSE 1) ELSE f[x]]

Count(f, k) == IF k \in DOMAIN f THEN f[k] ELSE 0

Top == stack[Len(stack)]

Pop(s) == SubSeq(s, 1, Len(s) - 1)

\* lines 322-329 and 301-312: a call is_filtered(key), up to its return or to the loop of _is_filtered
is_filtered_call(key) ==
  IF is_cached(key) THEN
    /\ ret' = [key |-> key, val |-> cache[key]]
    /\ UNCHANGED <<cache, active, stack, log, inspections, seen>>
  ELSE IF in_progress(key) THEN
    /\ log' = log \cup {<<"not recursing into", key>>}
    /\ cache' = cache_after_loop_guard(key)
    /\ ret' = [key |-> key, val |-> LoopGuardAnswer]
    /\ UNCHANGED <<active, stack, inspections, seen>>
  ELSE
    \E frame \in {_is_filtered_entry(key)} : \E kind \in {policy(frame.title)} :
        /\ active' = active \cup {key}
        /\ stack' = Append(stack, frame)
        /\ log' = IF kind = "missing" THEN log \cup {<<"missing template", frame.title>>} ELSE log
        /\ inspections' = IF kind = "body" THEN Bump(inspections, frame.title) ELSE inspections
        /\ ret' = NoRet
        /\ UNCHANGED <<cache, seen>>

\* line 314: the loop of _is_filtered calls is_filtered on the normalised name of an invocation
Recurse ==
  /\ stack # <<>>
  /\ Top.st = "loop"
  /\ ret = NoRet
  /\ Len(stack) < MaxDepth
  /\ \E tname \in {normalize_template_name(templates[Top.title][Top.pos])} : is_filtered_call(tname)
  /\ UNCHANGED <<templates, pc, page, idx, removed, rendered, nin, nout, runvars, out, nread>>

\* lines 314-318: the loop of _is_filtered takes the nested call's result
Resume ==
  /\ stack # <<>>
  /\ Top.st = "loop"
  /\ ret # NoRet
  /\ stack' = [stack EXCEPT ![Len(stack)] = loop_body(Top, ret.val)]
  /\ ret' = NoRet
  /\ UNCHANGED <<templates, cache, active, log, inspections, seen,
                 pc, page, idx, removed, rendered, nin, nout, runvars, out, nread>>

\* lines 329-331: _is_filtered is back; memoise, release the active entry, return the cached value
Return ==
  /\ stack # <<>>
  /\ Top.st = "done"
  /\ cache' = [k \in DOMAIN cache \cup {Top.key} |-> IF k = Top.key THEN Top.res ELSE cache[k]]
  /\ active' = active_after_remove(Top.key, Top.res)
  /\ stack' = Pop(stack)
  /\ ret' = [key |-> Top.key, val |-> Top.res]
  /\ seen' = seen \cup {<<Top.key, Top.res, stack[1].key>>}
  /\ UNCHANGED <<templates, log, inspections, pc, page, idx, removed, rendered, nin, nout,
                 runvars, out, nread>>

-----------------------------------------------------------------------------
(* Documents: the raw dump, the reduced document, the output stream *)

\* siteinfo.namespaces['10']['name'] of the dump
TemplateNs == <<"T","e","m","p","l","a","t","e">>

SiteInfoElem == [dbname |-> "wiki", template_ns |-> TemplateNs]

NoSiteInfo == [dbname |-> "None", template_ns |-> <<>>]

\* no redirect child in the page element
NoRedirect == <<>>

TemplateTitle(local) == TemplateNs \o <<":">> \o local

\* Template:A, which invokes a blocklisted template
ElemTemplateA ==
  [title |-> TemplateTitle(<<"A">>), redirect |-> NoRedirect,
   text |-> <<[name |-> RawInfobox, parent |-> 0]>>]

\* Template:A, which invokes itself
ElemTemplateACycle ==
  [title |-> TemplateTitle(<<"A">>), redirect |-> NoRedirect,
   text |-> <<[name |-> RawA, parent |-> 0]>>]

\* Template:a of a wiki whose titles are case-sensitive
ElemTemplateLower ==
  [title |-> TemplateTitle(<<"a">>), redirect |-> NoRedirect,
   text |-> <<[name |-> RawInfobox, parent |-> 0]>>]

\* Template:B, a redirect page without invocations
ElemTemplateRedirect ==
  [title |-> TemplateTitle(<<"B">>), redirect |-> TemplateTitle(<<"A">>), text |-> <<>>]

\* an article that invokes A and B
ElemArticle ==
  [title |-> <<"X">>, redirect |-> NoRedirect,
   text |-> <<[name |-> RawA, parent |-> 0], [name |-> RawB, parent |-> 0]>>]

\* an article with a blocklisted invocation nested in another
ElemNested ==
  [title |-> <<"Y">>, redirect |-> NoRedirect,
   text |-> <<[name |-> RawInfobox, parent |-> 0], [name |-> RawInfobox, parent |-> 1]>>]

PageElems ==
  {ElemTemplateA, ElemTemplateACycle, ElemTemplateLower, ElemTemplateRedirect,
   ElemArticle, ElemNested}

\* a page element of a stream whose fields are not tracked
StreamElem == [id |-> 0, title |-> <<>>, redirect |-> NoRedirect, text |-> <<>>]

EmptyDump == [siteinfo |-> SiteInfoElem, pages |-> <<>>]

\* dumps of at most MaxPages page elements, numbered by their <id>
Dumps ==
  UNION { { [siteinfo |-> SiteInfoElem,
             pages |-> [i \in 1..n |-> [id |-> i] @@ f[i]]] : f \in [1..n -> PageElems] }
          : n \in 0..MaxPages }

Absent == [state |-> "absent", doc |-> EmptyDump]

Corrupt == [state |-> "corrupt", doc |-> EmptyDump]

EmptyPageTable == [k \in {} |-> StreamElem]

\* siteinfo, templates = None, None
NoLoad == [from |-> "None", siteinfo |-> NoSiteInfo, templates |-> EmptyPageTable]

\* a stream that discards what is written to it
NullOut == [null |-> TRUE, items |-> <<>>]

StdOut == [null |-> FALSE, items |-> <<>>]

\* a stream that leaves out the pages whose text is empty
print_to_skip_blank(target, item) ==
  IF target.null \/ (item.kind = "page" /\ item.text = <<>>) THEN target
  ELSE [target EXCEPT !.items = Append(@, item)]

\* print(..., file=target): Devnull.write drops the text, a file keeps it
print_to(target, item) ==
  IF target.null THEN target ELSE [target EXCEPT !.items = Append(@, item)]

Item(kind, e) ==
  [kind |-> kind, id |-> e.id, title |-> e.title, redirect |-> e.redirect, text |-> e.text]

-----------------------------------------------------------------------------
(* Table building: load_templates *)

\* line 267: template_ns
template_ns(siteinfo) == siteinfo.template_ns \o <<":">>

\* line 268: title.startswith(template_ns)
is_template_page(siteinfo, e) == startswith(e.title, template_ns(siteinfo))

\* line 270: title[len(template_ns):]
template_name(siteinfo, e) ==
  SubSeq(e.title, Len(template_ns(siteinfo)) + 1, Len(e.title))

\* Page.from_xml, lines 229-236
from_xml(e) == [title |-> e.title, redirect |-> e.redirect, text |-> e.text]

\* an echo that writes the page under its local name
echo_local_name(siteinfo, e) == [e EXCEPT !.title = template_name(siteinfo, e)]

\* line 269: the page element as echoed to the side output
echo(siteinfo, e) == e

\* lines 255-274: the siteinfo, the table and the side output of one pass over source
load_templates(source) ==
  LET siteinfo == source.siteinfo
      IsTemplate(e) == is_template_page(siteinfo, e)
      captured == SelectSeq(source.pages, IsTemplate)
      keys == {template_name(siteinfo, captured[i]) : i \in 1..Len(captured)}
      \* a later page of the same name replaces the earlier one
      last(k) == CHOOSE i \in 1..Len(captured) :
                   /\ template_name(siteinfo, captured[i]) = k
                   /\ \A j \in (i + 1)..Len(captured) : template_name(siteinfo, captured[j]) # k
  IN  [siteinfo |-> siteinfo,
       templates |-> [k \in keys |-> from_xml(captured[last(k)])],
       target |-> [siteinfo |-> siteinfo,
                   pages |-> [i \in 1..Len(captured) |-> echo(siteinfo, captured[i])]]]

\* lines 222-226 and 312: templates[title].wikicode.filter_templates(), for every entry
wikicode_table(table) ==
  [k \in DOMAIN table |-> [i \in 1..Len(table[k].text) |-> table[k].text[i].name]]

-----------------------------------------------------------------------------
(* Orchestrator: main *)

\* line 387: os.path.exists(args.templates)
exists(file) == file.state # "absent"

\* lines 154-158 and 389-390: zopen and the parse succeed; a name ending in .bz2 is opened with
\* bz2, which fails on the plain text that nopen(..., 'wt') writes
readable(path, file) == path = "plain" /\ file.state = "text"

\* a failed load that ends the run
after_load_failure_abort == "done"

\* lines 391-394: after a failed load templates is still None
after_load_failure == "rebuild"

\* line 387 is false: no cache file is named or the named file does not exist
NoCache ==
  /\ mpc = "start"
  /\ ~(argpath # "None" /\ exists(cachefile))
  /\ mpc' = "rebuild"
  /\ UNCHANGED <<templates, cache, active, stack, ret, log, inspections, seen,
                 pc, page, idx, removed, rendered, nin, nout,
                 dump, argpath, cachefile, loaded, out, nread>>

\* lines 387-390: the table is read from the cache file
Reload ==
  /\ mpc = "start"
  /\ argpath # "None" /\ exists(cachefile)
  /\ readable(argpath, cachefile)
  /\ \E r \in {load_templates(cachefile.doc)} :
       /\ loaded' = [from |-> "cache", siteinfo |-> r.siteinfo, templates |-> r.templates]
       /\ templates' = wikicode_table(r.templates)
  /\ mpc' = "header"
  /\ UNCHANGED <<cache, active, stack, ret, log, inspections, seen,
                 pc, page, idx, removed, rendered, nin, nout,
                 dump, argpath, cachefile, out, nread>>

\* lines 387-392: reading the cache file raises; the error is logged
ReloadFails ==
  /\ mpc = "start"
  /\ argpath # "None" /\ exists(cachefile)
  /\ ~readable(argpath, cachefile)
  /\ log' = log \cup {<<"loading templates from", <<argpath>>>>}
  /\ mpc' = after_load_failure
  /\ UNCHANGED <<templates, cache, active, stack, ret, inspections, seen,
                 pc, page, idx, removed, rendered, nin, nout,
                 dump, argpath, cachefile, loaded, out, nread>>

\* lines 394-397: the table is built from the raw dump; the side output goes to the cache file
Rebuild ==
  /\ mpc = "rebuild"
  /\ \E r \in {load_templates(dump)} :
       /\ loaded' = [from |-> "dump", siteinfo |-> r.siteinfo, templates |-> r.templates]
       /\ templates' = wikicode_table(r.templates)
       /\ cachefile' = IF argpath = "None" THEN cachefile
                       ELSE [state |-> "text", doc |-> r.target]
  /\ mpc' = "header"
  /\ UNCHANGED <<cache, active, stack, ret, log, inspections, seen,
                 pc, page, idx, removed, rendered, nin, nout,
                 dump, argpath, out, nread>>

\* the program is started again on the same dump, with the same arguments
Restart ==
  /\ mpc = "done"
  /\ mpc' = "start"
  /\ templates' = EmptyTable
  /\ loaded' = NoLoad
  /\ cache' = EmptyCache
  /\ active' = {}
  /\ log' = {}
  /\ inspections' = [k \in {} |-> 0]
  /\ out' = StdOut
  /\ nread' = 0
  /\ UNCHANGED <<stack, ret, seen, pc, page, idx, removed, rendered, nin, nout,
                 dump, argpath, cachefile>>

-----------------------------------------------------------------------------
(* Filter pass: filter_dump / remove_filtered_templates *)

\* the page element filter_dump is working on
current_element ==
  IF nread \in 1..Len(dump.pages) THEN dump.pages[nread] ELSE StreamElem

\* wikicode.remove(t) raises ValueError when t is no longer part of the tree
Attached(i) == Ancestors(page, i) \cap removed = {}

\* line 341: wikicode.remove(t)
remove_node(i) == removed \cup {i}

\* a removal that acts on the tree of the table entry when the page is a template page
templates_after_remove_shared(i) ==
  LET e == current_element
      k == template_name(loaded.siteinfo, e)
  IN  IF is_template_page(loaded.siteinfo, e) /\ k \in DOMAIN templates
      THEN [templates EXCEPT ![k] = IF i <= Len(@) THEN SubSeq(@, 1, i - 1) \o SubSeq(@, i + 1, Len(@))
                                    ELSE @]
      ELSE templates

\* lines 367 and 341: the tree that wikicode.remove changes is the one parsed from the page text
templates_after_remove(i) == templates

\* a failed removal that ends the loop
after_failed_removal_abort(i) == Len(page) + 1

\* lines 342-343: where the loop goes after a failed removal
after_failed_removal(i) == i + 1

\* str(wikicode): the invocations still in the tree, in document order
RECURSIVE render(_, _, _, _)
render(p, rem, par, j) ==
  IF j > Len(p) THEN <<>>
  ELSE (IF p[j].parent = par /\ j \notin rem
        THEN <<"{{">> \o p[j].name \o render(p, rem, j, j + 1) \o <<"}}">>
        ELSE <<>>)
       \o render(p, rem, par, j + 1)

\* lines 360-361: the start of the root element; the header is written
WriteHeader ==
  /\ mpc = "header"
  /\ out' = print_to(out, Item("header", StreamElem))
  /\ mpc' = "siteinfo"
  /\ UNCHANGED <<templates, cache, active, stack, ret, log, inspections, seen,
                 pc, page, idx, removed, rendered, nin, nout,
                 dump, argpath, cachefile, loaded, nread>>

\* lines 362-364: the siteinfo element is passed through
PassSiteinfo ==
  /\ mpc = "siteinfo"
  /\ out' = print_to(out, Item("siteinfo", StreamElem))
  /\ mpc' = "pages"
  /\ UNCHANGED <<templates, cache, active, stack, ret, log, inspections, seen,
                 pc, page, idx, removed, rendered, nin, nout,
                 dump, argpath, cachefile, loaded, nread>>

\* lines 366-367 and 337: the next page element arrives; its text is parsed and its invocations listed
StartPage(p) ==
  /\ mpc = "pages"
  /\ pc = "idle"
  /\ pc' = "loop"
  /\ page' = p
  /\ idx' = 1
  /\ removed' = {}
  /\ UNCHANGED <<templates, cache, active, stack, ret, log, inspections, seen,
                 rendered, nin, nout, runvars, out>>

\* lines 365-367: the next page element of the dump
ReadPage ==
  /\ nread < Len(dump.pages)
  /\ StartPage(dump.pages[nread + 1].text)
  /\ nread' = nread + 1

\* lines 338-339: the removal loop asks the resolver about the invocation at idx
Visit ==
  /\ pc = "loop"
  /\ idx <= Len(page)
  /\ stack = <<>>
  /\ ret = NoRet
  /\ \E tname \in {normalize_template_name(page[idx].name)} : is_filtered_call(tname)
  /\ UNCHANGED <<templates, pc, page, idx, removed, rendered, nin, nout, runvars, out, nread>>

\* lines 339-343: the removal loop acts on the resolver's answer
Remove ==
  /\ pc = "loop"
  /\ stack = <<>>
  /\ ret # NoRet
  /\ ret' = NoRet
  /\ IF Truthy(ret.val)
     THEN IF Attached(idx)
          THEN /\ removed' = remove_node(idx)
               /\ templates' = templates_after_remove(idx)
               /\ idx' = idx + 1
               /\ UNCHANGED log
          ELSE /\ log' = log \cup {<<"failed to remove", normalize_template_name(page[idx].name)>>}
               /\ idx' = after_failed_removal(idx)
               /\ UNCHANGED <<removed, templates>>
     ELSE /\ idx' = idx + 1
          /\ UNCHANGED <<removed, log, templates>>
  /\ UNCHANGED <<cache, active, stack, inspections, seen,
                 pc, page, rendered, nin, nout, runvars, out, nread>>

\* lines 369-371: the revision text is overwritten with str(wikicode)
RenderPage ==
  /\ pc = "loop"
  /\ idx > Len(page)
  /\ stack = <<>>
  /\ ret = NoRet
  /\ rendered' = render(page, removed, 0, 1)
  /\ pc' = "write"
  /\ UNCHANGED <<templates, cache, active, stack, ret, log, inspections, seen,
                 page, idx, removed, nin, nout, runvars, out, nread>>

\* lines 373-374: the page element is written and released
WritePage ==
  /\ pc = "write"
  /\ pc' = "idle"
  /\ out' = print_to(out, Item("page", [current_element EXCEPT !.text = rendered]))
  /\ rendered' = <<>>
  /\ page' = <<>>
  /\ idx' = 1
  /\ removed' = {}
  /\ UNCHANGED <<templates, cache, active, stack, ret, log, inspections, seen,
                 nin, nout, runvars, nread>>

\* line 375: the stream has ended; the closing root tag is written
CloseDump ==
  /\ mpc = "pages"
  /\ pc = "idle"
  /\ nread = Len(dump.pages)
  /\ out' = print_to(out, Item("footer", StreamElem))
  /\ mpc' = "done"
  /\ UNCHANGED <<templates, cache, active, stack, ret, log, inspections, seen,
                 pc, page, idx, removed, rendered, nin, nout,
                 dump, argpath, cachefile, loaded, nread>>

\* lines 332-333: a new run of the program starts with an empty cache and active set
NewRun ==
  /\ pc = "idle"
  /\ cache # EmptyCache
  /\ cache' = EmptyCache
  /\ active' = {}
  /\ log' = {}
  /\ inspections' = [k \in {} |-> 0]
  /\ UNCHANGED <<templates, stack, ret, seen, pc, page, idx, removed, rendered, nin, nout,
                 runvars, out, nread>>

\* line 301 / 313 / 338: normalize_template_name applied to the input, then to its own result
Normalize ==
  /\ Len(nout) < 2
  /\ nout' = Append(nout, normalize_template_name(IF nout = <<>> THEN nin ELSE nout[Len(nout)]))
  /\ UNCHANGED <<templates, cache, active, stack, ret, log, inspections, seen,
                 pc, page, idx, removed, rendered, nin, runvars, out, nread>>

-----------------------------------------------------------------------------
(* Specifications *)

\* the resolver and the removal loop at work inside a filter pass: the table is given, the page
\* elements come from an open stream and the output is not kept
InitState(tables, strings) ==
  /\ templates \in tables
  /\ cache = EmptyCache
  /\ active = {}
  /\ stack = <<>>
  /\ ret = NoRet
  /\ log = {}
  /\ inspections = [k \in {} |-> 0]
  /\ seen = {}
  /\ pc = "idle"
  /\ page = <<>>
  /\ idx = 1
  /\ removed = {}
  /\ rendered = <<>>
  /\ nin \in strings
  /\ nout = <<>>
  /\ dump = EmptyDump
  /\ argpath = "None"
  /\ cachefile = Absent
  /\ mpc = "pages"
  /\ loaded = NoLoad
  /\ out = NullOut
  /\ nread = 0

Init == InitState(Tables, {<<>>})

InitPages == InitState(PageTables, {<<>>})

InitNormalize == InitState({EmptyTable}, NameStrings)

\* the program is started on a dump, with or without a cache file name
InitMain ==
  /\ templates = EmptyTable
  /\ cache = EmptyCache
  /\ active = {}
  /\ stack = <<>>
  /\ ret = NoRet
  /\ log = {}
  /\ inspections = [k \in {} |-> 0]
  /\ seen = {}
  /\ pc = "idle"
  /\ page = <<>>
  /\ idx = 1
  /\ removed = {}
  /\ rendered = <<>>
  /\ nin = <<>>
  /\ nout = <<>>
  /\ dump \in Dumps
  /\ argpath \in {"None", "plain", "bz2"}
  /\ cachefile \in {Absent, Corrupt}
  /\ mpc = "start"
  /\ loaded = NoLoad
  /\ out = StdOut
  /\ nread = 0

ResolveStep == Recurse \/ Resume \/ Return

PageStep == Visit \/ Remove \/ RenderPage \/ WritePage

\* the next page element of the stream is one of pages
NextPage(pages) == (\E p \in pages : StartPage(p)) /\ UNCHANGED nread

\* the resolver under requests for the names that bodies invoke, in any order
Next ==
  \/ NextPage(RequestPages)
  \/ PageStep
  \/ ResolveStep

\* the removal loop over pages with several, possibly nested, invocations
NextPages ==
  \/ NextPage(Pages)
  \/ PageStep
  \/ ResolveStep

\* several runs of the program over the same table
NextRuns ==
  \/ NextPage(RequestPages)
  \/ PageStep
  \/ ResolveStep
  \/ NewRun

LoadStep == NoCache \/ Reload \/ ReloadFails \/ Rebuild

\* main, from its start to the closing tag, run after run
NextMain ==
  \/ LoadStep
  \/ WriteHeader
  \/ PassSiteinfo
  \/ ReadPage
  \/ PageStep
  \/ ResolveStep
  \/ CloseDump
  \/ Restart

Spec == Init /\ [][Next]_vars

SpecPages == InitPages /\ [][NextPages]_vars

SpecRuns == Init /\ [][NextRuns]_vars

\* a sequential program takes its next step
SpecFair == Init /\ [][Next]_vars /\ WF_vars(ResolveStep) /\ WF_vars(PageStep)

SpecNormalize == InitNormalize /\ [][Normalize]_vars

SpecMain == InitMain /\ [][NextMain]_vars

-----------------------------------------------------------------------------
(* Properties *)

Norm(raw) == normalize_template_name(raw)

\* the normalised names a template body invokes
Invoked(t) == {Norm(templates[t][i]) : i \in 1..Len(templates[t])}

\* the keys of the call chain, innermost last
ChainKeys == [i \in 1..Len(stack) |-> stack[i].key]

\* the remove_filtered_templates loop holds the answer to its request for the invocation at idx
Answered == pc = "loop" /\ stack = <<>> /\ ret # NoRet

\* a and b are templates with bodies that invoke each other and nothing else (a = b: a invokes itself)
Cycle(a, b) ==
  /\ a \in DOMAIN templates /\ b \in DOMAIN templates
  /\ policy(a) = "body" /\ policy(b) = "body"
  /\ b \in Invoked(a) /\ a \in Invoked(b)
  /\ Invoked(a) \cup Invoked(b) \subseteq {a, b}

\* C1: a template of the table whose own name takes the body branch is resolved true as soon as
\* any invocation of its body, first or later, is resolved true
C1_AnyFilteredInvocationFilters ==
  \A t \in DOMAIN templates \cap DOMAIN cache :
    (policy(t) = "body" /\ \E c \in Invoked(t) : c \in DOMAIN cache /\ cache[c] = "True")
      => cache[t] = "True"

\* C2: on a reference cycle A <-> B (or A -> A) without blocklisted names, the value memoised for
\* each name is false and the top-level request for either is answered false: no name that is
\* memoised or answered with another value lies on such a cycle
C2_CycleResolvesFalse ==
  \A a \in DOMAIN templates :
    (\/ a \in DOMAIN cache /\ cache[a] # "False"
     \/ Answered /\ ret.key = a /\ ret.val # "False")
      => \A b \in DOMAIN templates : ~Cycle(a, b)

C2_Witness ==
  \E a \in DOMAIN templates : \E b \in DOMAIN templates :
    /\ a # b /\ Cycle(a, b)
    /\ a \in DOMAIN cache /\ b \in DOMAIN cache
    /\ cache[a] = "False" /\ cache[b] = "False"
    /\ Answered /\ ret.key = a /\ ret.val = "False"

\* every template name the resolver can meet: the keys of the table, the names its bodies invoke
\* and the names the page invokes
DistinctNames ==
  DOMAIN templates
    \cup UNION {Invoked(t) : t \in DOMAIN templates}
    \cup {Norm(page[i].name) : i \in 1..Len(page)}

NoNameTwiceOnChain ==
  \A i \in 1..Len(stack) : \A j \in 1..Len(stack) : stack[i].key = stack[j].key => i = j

\* C3: no name is under resolution twice on the call chain, the chain is never deeper than the
\* number of distinct template names, and every top-level request is answered
C3_ResolveTerminates ==
  /\ [](NoNameTwiceOnChain /\ Len(stack) <= Cardinality(DistinctNames))
  /\ [](stack # <<>> => <>(stack = <<>> /\ ret # NoRet))

C3_Witness ==
  \E a \in DOMAIN templates : \E b \in DOMAIN templates :
    /\ a # b /\ Cycle(a, b)
    /\ ChainKeys = <<a, b>>
    /\ ret = [key |-> a, val |-> "None"]

\* C4: whatever name a run resolves first, and whichever top-level request triggers the
\* memoisation of a name, the value memoised for that name is the same in every run over the
\* same table
C4_DecisionIndependentOfOrder ==
  \A e1 \in seen : \A e2 \in seen : e1[1] = e2[1] => e1[2] = e2[2]

C4_Witness ==
  \E a \in DOMAIN templates : \E b \in DOMAIN templates :
    /\ a # b /\ Cycle(a, b)
    /\ {<<b, "False", a>>, <<b, "False", b>>, <<a, "False", a>>, <<a, "False", b>>} \subseteq seen

CacheEntriesKept ==
  \A k \in DOMAIN cache : k \in DOMAIN cache' /\ cache'[k] = cache[k]

AnswerIsCachedValue ==
  ret # NoRet =>
    /\ ret.val # "None" => ret.key \in DOMAIN cache
    /\ ret.key \in DOMAIN cache => ret.val = cache[ret.key]

\* C5: a cache entry, once written, is never overwritten or removed, and every is_filtered call
\* that answers for a cached name, or answers other than None, answers the cached value
C5_MemoConsistent == []AnswerIsCachedValue /\ [][CacheEntriesKept]_vars

\* a later invocation of the page repeats the name of the first and gets the cached answer
C5_Witness ==
  /\ Answered /\ idx >= 2
  /\ page[idx].name = page[1].name
  /\ ret.key = Norm(page[1].name)
  /\ ret.val = cache[ret.key]

InfoboxX == <<"I","n","f","o","b","o","x"," ","x">>

\* C6: a name whose normalised form starts with a blocklist prefix is memoised true without any
\* body being inspected, whether or not the table has an entry for it, and the request for
\* "infobox x" is answered true
C6_NamePrefixFiltered ==
  /\ \A k \in DOMAIN cache :
       (\E prefix \in FILTERED_TEMPLATE_PREFIXES : startswith(k, prefix))
         => cache[k] = "True" /\ Count(inspections, k) = 0
  /\ (Answered /\ page[idx].name = RawInfobox) => ret = [key |-> InfoboxX, val |-> "True"]

C6_Witness ==
  /\ InfoboxX \in DOMAIN templates /\ templates[InfoboxX] # <<>>
  /\ Answered /\ page[idx].name = RawInfobox
  /\ ret = [key |-> InfoboxX, val |-> "True"]
  /\ cache[InfoboxX] = "True"
  /\ Count(inspections, InfoboxX) = 0

\* C7: a magic word or a name that begins with "#" is memoised false without its body being
\* inspected, also when the table has an entry under that name, and a page that invokes it
\* is written unchanged
C7_MagicNeverFiltered ==
  /\ \A k \in DOMAIN cache :
       ((k \in MAGIC_WORDS \/ k[1] = "#") /\ ~is_filtered_by_name(k))
         => cache[k] = "False" /\ Count(inspections, k) = 0
  /\ (Answered /\ page[idx].name \in {RawPagename, RawIf}) => ret.val = "False"
  /\ (pc = "write" /\ page[1].name \in {RawPagename, RawIf})
       => rendered = <<"{{">> \o page[1].name \o <<"}}">>

C7_Witness ==
  /\ RawPagename \in DOMAIN templates
  /\ pc = "write" /\ page[1].name = RawPagename
  /\ rendered = <<"{{">> \o RawPagename \o <<"}}">>
  /\ cache[RawPagename] = "False"
  /\ RawIf \in DOMAIN cache /\ cache[RawIf] = "False"

\* the invocations of the page that are not below a removed invocation
Kept == {i \in 1..Len(page) : i \notin removed /\ Ancestors(page, i) \cap removed = {}}

IsMissing(k) ==
  /\ ~is_filtered_by_name(k)
  /\ ~(k \in MAGIC_WORDS \/ k[1] = "#")
  /\ k \notin DOMAIN templates

\* C8: a name that is absent from the table is memoised false with a missing-template record
\* logged; the loop goes on to the end of the page, and the page keeps every invocation of the
\* name that is not nested in a removed invocation
C8_MissingTemplateRetained ==
  /\ \A k \in DOMAIN cache :
       IsMissing(k) => cache[k] = "False" /\ <<"missing template", k>> \in log
  /\ (Answered /\ IsMissing(ret.key)) => ret.val = "False"
  /\ pc = "write" =>
       \A i \in 1..Len(page) :
         /\ Norm(page[i].name) \in DOMAIN cache
         /\ (IsMissing(Norm(page[i].name)) /\ Ancestors(page, i) \cap removed = {}) => i \in Kept

\* a page that invokes a missing template first and a blocklisted one after it
C8_Witness ==
  /\ pc = "write" /\ Len(page) >= 2
  /\ IsMissing(Norm(page[1].name))
  /\ 1 \in Kept /\ 2 \in removed
  /\ <<"missing template", Norm(page[1].name)>> \in log

\* C9: normalisation yields a name for every string, and normalising that name again gives it back
C9_NormalizeTotalIdempotent ==
  /\ Len(nout) >= 1 => nout[1] # IndexError
  /\ Len(nout) = 2 => nout[2] = nout[1]

\* the invocations whose normalised name is memoised true
Filtered == {i \in 1..Len(page) : Norm(page[i].name) \in DOMAIN cache
                                  /\ cache[Norm(page[i].name)] = "True"}

\* C10: when the page is written, an invocation is absent from its text iff its name resolves
\* true or it is nested in a removed invocation; the text is the original with the filtered
\* invocations cut out, unchanged if there is none; removing a detached node is logged
C10_RemovalExact ==
  pc = "write" =>
    /\ \A i \in 1..Len(page) :
         /\ i \notin Kept <=> (i \in Filtered \/ Ancestors(page, i) \cap removed # {})
         /\ (i \in Filtered /\ Ancestors(page, i) \cap removed # {})
              => <<"failed to remove", Norm(page[i].name)>> \in log
         /\ (i \in Filtered /\ Ancestors(page, i) \cap removed = {}) => i \in removed
    /\ rendered = render(page, Filtered, 0, 1)
    /\ Filtered = {} => rendered = render(page, {}, 0, 1)

\* a filtered invocation with a filtered one nested in it, followed by a third filtered one
C10_Witness ==
  /\ pc = "write" /\ Len(page) = 3
  /\ page[2].parent = 1 /\ page[3].parent = 0
  /\ Filtered = {1, 2, 3}
  /\ removed = {1, 3}
  /\ rendered = <<>>

\* the number of page elements written so far
Written == IF pc = "idle" THEN nread ELSE nread - 1

\* what the output stream has to hold: the header, the siteinfo, the pages read so far in the
\* order of the dump, the closing tag
ExpectedOutline ==
  (IF mpc \in {"siteinfo", "pages", "done"} THEN <<<<"header", 0>>>> ELSE <<>>)
    \o (IF mpc \in {"pages", "done"} THEN <<<<"siteinfo", 0>>>> ELSE <<>>)
    \o [i \in 1..Written |-> <<"page", dump.pages[i].id>>]
    \o (IF mpc = "done" THEN <<<<"footer", 0>>>> ELSE <<>>)

\* C11: the output stream holds the header, the siteinfo, then one page element for every page
\* element read, in the order of the dump and under its title, and the closing tag after the
\* last of them; when the pass ends every page element of the dump has been written
C11_OnePagePerInputInOrder ==
  /\ [i \in 1..Len(out.items) |-> <<out.items[i].kind, out.items[i].id>>] = ExpectedOutline
  /\ \A i \in 1..Len(out.items) :
       out.items[i].kind = "page" =>
         /\ out.items[i].title = dump.pages[out.items[i].id].title
         /\ out.items[i].redirect = dump.pages[out.items[i].id].redirect
  /\ mpc = "done" => Written = Len(dump.pages)

\* a pass over two pages that met a reference loop and a missing template has ended
C11_Witness ==
  /\ mpc = "done" /\ Len(dump.pages) = 2
  /\ Len(out.items) = 5
  /\ out.items[3].kind = "page" /\ out.items[4].kind = "page"
  /\ \E k \in DOMAIN cache : <<"not recursing into", k>> \in log
  /\ \E k \in DOMAIN cache : <<"missing template", k>> \in log

\* line 387 holds and the file can be read
CacheUsable == argpath # "None" /\ exists(cachefile) /\ readable(argpath, cachefile)

LoadFailureLogged == \E path \in {"plain", "bz2"} : <<"loading templates from", <<path>>>> \in log

\* C12: the table is read from the cache file iff a file is named, exists and loads without
\* error; otherwise it is built from the raw dump, a load failure being logged and followed by
\* the build; the filter pass then starts, with a table that is not None
C12_ReloadOrRebuild ==
  /\ [][mpc = "start" =>
          IF CacheUsable
          THEN mpc' = "header" /\ loaded'.from = "cache" /\ log' = log
          ELSE /\ mpc' = "rebuild" /\ loaded' = NoLoad
               /\ LoadFailureLogged' <=> (argpath # "None" /\ exists(cachefile))]_vars
  /\ [][mpc = "rebuild" =>
          /\ mpc' = "header" /\ loaded'.from = "dump"
          /\ loaded'.templates = load_templates(dump).templates
          /\ log' = log]_vars
  /\ [](mpc \in {"header", "siteinfo", "pages", "done"} => loaded.from \in {"cache", "dump"})
  /\ [](LoadFailureLogged => loaded.from # "cache")

\* a run whose cache file could not be read has built its table from the dump and ended its pass
C12_Witness ==
  /\ mpc = "done"
  /\ LoadFailureLogged
  /\ loaded.from = "dump"
  /\ DOMAIN loaded.templates # {}
  /\ Len(out.items) = Len(dump.pages) + 3

\* C13: every key of the table is a normalised name, stands for a page of the dump whose title
\* is the template namespace prefix followed by the key, and the normalised local name of every
\* template page of the dump is a key
C13_KeysNormalized ==
  loaded.from # "None" =>
    /\ \A k \in DOMAIN loaded.templates : Norm(k) = k
    /\ \A k \in DOMAIN loaded.templates :
         \E i \in 1..Len(dump.pages) : dump.pages[i].title = TemplateTitle(k)
    /\ \A i \in 1..Len(dump.pages) :
         is_template_page(dump.siteinfo, dump.pages[i])
           => Norm(template_name(dump.siteinfo, dump.pages[i])) \in DOMAIN loaded.templates

\* C18: from the header to the closing tag no step changes the table: neither its keys, nor the
\* page record under a key, nor the invocations the resolver finds in an entry
C18_TableReadOnly ==
  [][(mpc \in {"header", "siteinfo", "pages"}) =>
       /\ templates' = templates
       /\ loaded' = loaded]_vars

\* the page Template:A has been written without its blocklisted invocation, and the resolver has
\* then found that invocation in the table entry of A
C18_Witness ==
  /\ mpc = "pages" /\ pc = "write" /\ nread = 2
  /\ dump.pages[1].title = TemplateTitle(<<"A">>)
  /\ dump.pages[1].text # <<>>
  /\ out.items[3].kind = "page" /\ out.items[3].text = <<>>
  /\ Count(inspections, <<"A">>) = 1
  /\ cache[<<"A">>] = "True"

SameTable(t1, t2) ==
  /\ DOMAIN t1 = DOMAIN t2
  /\ \A k \in DOMAIN t1 :
       /\ t1[k].title = t2[k].title
       /\ t1[k].redirect = t2[k].redirect
       /\ t1[k].text = t2[k].text

NestedRequest == Norm(templates[Top.title][Top.pos])

\* the next step is a request for a name that is under resolution and not memoised
LoopGuardDue ==
  /\ stack # <<>> /\ Top.st = "loop" /\ ret = NoRet
  /\ NestedRequest \notin DOMAIN cache
  /\ NestedRequest \in active

\* C14: a request for a name that is in the active set and not in the cache starts no nested
\* resolution and inspects no body, is answered None, and leaves the cache and the active set
\* as they were
C14_LoopGuardFrame ==
  [][LoopGuardDue =>
       /\ ret' = [key |-> NestedRequest, val |-> "None"]
       /\ cache' = cache /\ active' = active
       /\ stack' = stack /\ inspections' = inspections]_vars

\* a template that invokes itself has just been refused by the loop guard
C14_Witness ==
  /\ Len(stack) = 1 /\ Top.st = "loop"
  /\ ret = [key |-> Top.key, val |-> "None"]
  /\ active = {Top.key}
  /\ Top.key \notin DOMAIN cache
  /\ <<"not recursing into", Top.key>> \in log

\* C15: the active set is exactly the set of names on the call chain, and it is empty when a
\* top-level request has been answered
C15_ActiveIsCallChain ==
  /\ active = {stack[i].key : i \in 1..Len(stack)}
  /\ Answered => active = {}

\* a top-level request whose resolution met the loop guard has been answered
C15_Witness ==
  /\ Answered /\ active = {}
  /\ <<"not recursing into", ret.key>> \in log
  /\ Cardinality(DOMAIN cache) >= 2

\* no step starts the evaluation of a memoised name or inspects its body
NoWorkForCached ==
  \A k \in DOMAIN cache :
    /\ Count(inspections', k) = Count(inspections, k)
    /\ Len(stack') > Len(stack) => stack'[Len(stack')].key # k

\* C16: no body is inspected more than once, no memoised name is under evaluation, and a request
\* for a memoised name starts no evaluation and inspects no body
C16_EvaluatedAtMostOnce ==
  /\ [](\A k \in DOMAIN inspections : inspections[k] <= 1)
  /\ [](\A i \in 1..Len(stack) : stack[i].key \notin DOMAIN cache)
  /\ [][NoWorkForCached]_vars

\* the body of a template asks for a name that an earlier top-level request memoised
C16_Witness ==
  /\ Len(stack) = 1 /\ Top.st = "loop" /\ ret # NoRet
  /\ ret.key # Top.key
  /\ ret.key \in DOMAIN cache
  /\ <<ret.key, cache[ret.key], ret.key>> \in seen
  /\ Count(inspections, ret.key) = 1

\* C17: every memoised value is True or False, and a template whose body has no invocation is
\* memoised False and answered False
C17_EmptyBodyResolvesFalse ==
  /\ \A k \in DOMAIN cache : cache[k] \in {"True", "False"}
  /\ \A k \in DOMAIN cache :
       (policy(k) = "body" /\ templates[k] = <<>>) => cache[k] = "False"
  /\ (Answered /\ policy(ret.key) = "body" /\ templates[ret.key] = <<>>) => ret.val = "False"

\* the table entries from which a chain of at most n + 1 table entries, each taking the body
\* branch and invoking the next, leads to a name that starts with a blocklist prefix
RECURSIVE FilteredWithin(_)
FilteredWithin(n) ==
  IF n = 0
  THEN {t \in DOMAIN templates :
          policy(t) = "body" /\ \E c \in Invoked(t) : is_filtered_by_name(c)}
  ELSE LET prev == FilteredWithin(n - 1)
       IN  prev \cup {t \in DOMAIN templates : policy(t) = "body" /\ Invoked(t) \cap prev # {}}

Justified(k) ==
  is_filtered_by_name(k) \/ k \in FilteredWithin(Cardinality(DOMAIN templates))

\* C20: a name is memoised or answered true only if it starts with a blocklist prefix or a chain
\* of table entries leads from it to a name that does; a magic word, a parser function or a name
\* that is absent from the table is memoised true only if it starts with a blocklist prefix
C20_NeverOverFilters ==
  /\ \A k \in DOMAIN cache : cache[k] = "True" => Justified(k)
  /\ (ret # NoRet /\ ret.val = "True") => Justified(ret.key)
  /\ \A k \in DOMAIN cache :
       (cache[k] = "True" /\ policy(k) \in {"magic", "missing"}) => is_filtered_by_name(k)

\* true was memoised along a chain of two table entries
C20_Witness ==
  \E a \in DOMAIN templates : \E b \in DOMAIN templates :
    /\ a # b
    /\ policy(a) = "body" /\ policy(b) = "body"
    /\ b \in Invoked(a)
    /\ ~(\E k \in Invoked(a) : is_filtered_by_name(k))
    /\ a \in DOMAIN cache /\ cache[a] = "True"
    /\ <<b, "True", a>> \in seen

====
